---- MODULE Spec2Model ----
(***************************************************************************)
(* A model of the two turbopuffer benchmark drivers:                       *)
(*   build_index.rs  (specification Spec):      delete the namespace, read *)
(*       documents from stdin, upload them in batches through a JoinSet    *)
(*       with bounded concurrency, drain, then poll the index metadata.    *)
(*   do_query.rs     (specification QuerySpec): read command lines,        *)
(*       compile each into a request body, send it, validate the answer.   *)
(* The remote service is the environment: every response it may give is a  *)
(* nondeterministic choice.                                                *)
(***************************************************************************)
EXTENDS Integers, Sequences, FiniteSets, TLC

(***************************************************************************)
(* Bounds.  BATCH_SIZE and MAX_CONCURRENCY are 10_000 and 32 in            *)
(* build_index.rs (lines 15, 16); the model runs them scaled down.         *)
(***************************************************************************)
BATCH_SIZE == 2

MAX_CONCURRENCY == 3

\* The number of stdin lines build_index.rs is given at most.
MaxLines == 12

\* The number of stdin lines do_query.rs is given at most.
MaxQueryLines == 2

VARIABLES
    pc,           \* build_index main: "delete", "read", "join_next", "join_all",
                  \*                   "poll", "sleep", "done"
    ret,          \* what main returned: "running" until it does
    net,          \* the HTTP requests in flight
    delete_resp,  \* what the service answered to the DELETE ("none" before)
    delete_msg,   \* the line main printed after delete_namespace()
    stdin_eof,    \* stdin.lock().lines() has returned None
    nread,        \* lines taken from stdin so far
    i,            \* main's counter of non-blank lines
    batch,        \* main's current batch: the documents, by their ordinal
    spawned,      \* the batches handed to write_batch, in spawn order
    task,         \* task[k]: state of the k-th spawned write_batch task
    join_set,     \* the tasks still held by the JoinSet
    results,      \* the vector join_all() collects
    response,     \* wait_for_index: response.index of the last metadata poll
    qpc,          \* do_query main: "read", "await_count", "await_rows", "done"
    qret,         \* what do_query's main returned: "running" until it does
    qlines,       \* the lines do_query has taken from stdin, in order
    command,      \* fields[0] of the current line
    query,        \* fields[1] of the current line
    qnet,         \* the query requests in flight (their bodies)
    sent,         \* the bodies of all query requests sent, in order
    qresponse,    \* `response`: the last answer main deserialized
    stdout        \* the lines do_query has printed, in order

ingestVars == <<pc, ret, net, delete_resp, delete_msg, stdin_eof, nread, i,
                batch, spawned, task, join_set, results, response>>

queryVars == <<qpc, qret, qlines, command, query, qnet, sent, qresponse,
               stdout>>

----------------------------------------------------------------------------
(* build_index.rs: the pure parts *)

DeleteReq == [kind |-> "DELETE", id |-> 0]
MetadataReq == [kind |-> "GET_metadata", id |-> 0]
UpsertReq(k) == [kind |-> "POST_upsert", id |-> k]

\* What the service may answer to a DELETE or an upsert; "transport" is a
\* failed send().
HttpResponses == {"2xx", "404", "5xx", "transport"}

\* send().await?.error_for_status()? : Ok only for a success status.
delete_namespace(r) == IF r = "2xx" THEN "Ok" ELSE "Err"

write_batch(r) == IF r = "2xx" THEN "Ok" ELSE "Err"

\* Variant: the delete's error propagated with `?`.
DeleteIsFatalPropagated(res) == res = "Err"

\* main, `if let Ok(_) = delete_namespace().await {..} else {..}`: neither arm
\* returns, whatever the result.
DeleteIsFatal(res) == FALSE

DeleteMessage(res) ==
    IF res = "Ok" THEN "namespace deleted" ELSE "namespace not found, ignoring"

\* `if batch.len() >= BATCH_SIZE`
BatchFull(b) == Len(b) >= BATCH_SIZE

\* Variant: the slot check off by one (`>` for `>=`).
SlotWaitNeededOffByOne(js) == Cardinality(js) > MAX_CONCURRENCY

\* Variant: the producer waits for a task after every line.
SlotWaitNeededAlways(js) == TRUE

\* `if join_set.len() >= MAX_CONCURRENCY`
SlotWaitNeeded(js) == Cardinality(js) >= MAX_CONCURRENCY

\* Variant: the batch cloned into the task and not emptied.
mem_take_keeps(b) == b

\* mem::take(&mut batch): what is left in `batch`.
mem_take(b) == <<>>

\* Variant: a drain that returns at the first Err it collects (fail-fast-abort).
DrainFinishedOnFirstError ==
    join_set = {} \/ \E k \in 1..Len(results) : results[k] = "Err"

\* Variant: no drain at all before wait_for_index().
DrainSkipped == TRUE

\* join_all() returns once join_next() yields None: the set is empty.
DrainFinished == join_set = {}

\* `for result in ... { result?; }`: the first Err, if any, is returned.
FirstError(rs) == \E k \in 1..Len(rs) : rs[k] = "Err"

\* Dropping the JoinSet when main returns aborts the tasks still running.
AbortedOnReturn(tk, js) ==
    [k \in 1..Len(tk) |->
        IF k \in js /\ tk[k] = "running" THEN "aborted" ELSE tk[k]]

\* The metadata responses: a transport error, an error status, a body that
\* does not parse as MetadataResponse, or an index status.  An Option is the
\* set of its at most one value.
NoIndex == [status |-> "(none)", unindexed_bytes |-> {}]

\* do_query.rs: what QueryResponse / AggregationResponse keep of an answer.
NoQueryResponse == [rows |-> {}, aggregations |-> {}, exhaustive_search_count |-> 0]

MetadataResponses ==
    {[http |-> h, json |-> FALSE, index |-> NoIndex] : h \in {"transport", "5xx"}}
    \cup {[http |-> "2xx", json |-> FALSE, index |-> NoIndex]}
    \cup {[http |-> "2xx", json |-> TRUE,
           index |-> [status |-> s, unindexed_bytes |-> b]] :
             s \in {"up-to-date", "updating"}, b \in {{}, {0}, {4096}}}

\* One round of wait_for_index's loop on response r.
WaitStep(r) ==
    IF r.http # "2xx" \/ ~r.json THEN "Err"
    ELSE IF r.index.status = "up-to-date" THEN "Ok"
    ELSE IF r.index.unindexed_bytes = {} THEN "panic"   \* unwrap() on None
    ELSE "sleep"

----------------------------------------------------------------------------
(* build_index.rs: main *)

\* build_index.rs once delete_namespace() has sent its request.
IngestInit ==
    /\ pc = "delete"
    /\ ret = "running"
    /\ net = {DeleteReq}
    /\ delete_resp = "none"
    /\ delete_msg = "none"
    /\ stdin_eof = FALSE
    /\ nread = 0
    /\ i = 0
    /\ batch = <<>>
    /\ spawned = <<>>
    /\ task = <<>>
    /\ join_set = {}
    /\ results = <<>>
    /\ response = NoIndex

\* do_query.rs as it enters its loop over stdin.
QueryInit ==
    /\ qpc = "read"
    /\ qret = "running"
    /\ qlines = <<>>
    /\ command = <<>>
    /\ query = <<>>
    /\ qnet = {}
    /\ sent = <<>>
    /\ qresponse = NoQueryResponse
    /\ stdout = <<>>

\* The two programs are separate processes: Spec runs build_index.rs and
\* QuerySpec runs do_query.rs, the other one standing at its start.
Init == IngestInit /\ QueryInit

\* main returns r: the JoinSet is dropped, the process ends.
Return(r) ==
    /\ pc' = "done"
    /\ ret' = r
    /\ net' = {}
    /\ task' = AbortedOnReturn(task, join_set)
    /\ join_set' = {}

\* The service answers the DELETE; main prints and goes on to the read loop.
DeleteResponds ==
    /\ pc = "delete"
    /\ DeleteReq \in net
    /\ \E r \in HttpResponses :
        LET res == delete_namespace(r) IN
        /\ delete_resp' = r
        /\ IF DeleteIsFatal(res)
           THEN /\ Return("Err_delete")
                /\ UNCHANGED delete_msg
           ELSE /\ delete_msg' = DeleteMessage(res)
                /\ pc' = "read"
                /\ net' = net \ {DeleteReq}
                /\ UNCHANGED <<ret, task, join_set>>
    /\ UNCHANGED <<stdin_eof, nread, i, batch, spawned, results, response>>
    /\ UNCHANGED queryVars

\* Variant: the read loop started without awaiting delete_namespace().
CanReadDeleteNotAwaited == pc \in {"delete", "read"}

\* The for loop over stdin's lines runs once delete_namespace() was awaited.
CanRead == pc = "read"

\* `let line = line?;` fails (stdin is not valid UTF-8, or a read error).
ReadIoError ==
    /\ CanRead
    /\ nread < MaxLines
    /\ nread' = nread + 1
    /\ Return("Err_io")
    /\ UNCHANGED <<delete_resp, delete_msg, stdin_eof, i, batch, spawned,
                   results, response>>
    /\ UNCHANGED queryVars

\* A blank line: `continue`.
ReadBlank ==
    /\ CanRead
    /\ nread < MaxLines
    /\ nread' = nread + 1
    /\ UNCHANGED <<pc, ret, net, delete_resp, delete_msg, stdin_eof, i, batch,
                   spawned, task, join_set, results, response>>
    /\ UNCHANGED queryVars

\* A non-blank line that serde_json::from_str rejects.
ReadMalformed ==
    /\ CanRead
    /\ nread < MaxLines
    /\ nread' = nread + 1
    /\ i' = i + 1
    /\ Return("Err_parse")
    /\ UNCHANGED <<delete_resp, delete_msg, stdin_eof, batch, spawned,
                   results, response>>
    /\ UNCHANGED queryVars

\* A document line: push, spawn a full batch, then the slot check.
ReadDoc ==
    /\ CanRead
    /\ nread < MaxLines
    /\ nread' = nread + 1
    /\ i' = i + 1
    /\ LET pushed == Append(batch, i')
           k == Len(spawned) + 1
       IN
       /\ IF BatchFull(pushed)
          THEN /\ spawned' = Append(spawned, pushed)
               /\ batch' = mem_take(pushed)
               /\ task' = Append(task, "running")
               /\ join_set' = join_set \cup {k}
               /\ net' = net \cup {UpsertReq(k)}
          ELSE /\ batch' = pushed
               /\ UNCHANGED <<spawned, task, join_set, net>>
       /\ pc' = IF SlotWaitNeeded(join_set') THEN "join_next" ELSE "read"
    /\ UNCHANGED <<ret, delete_resp, delete_msg, stdin_eof, results, response>>
    /\ UNCHANGED queryVars

\* `let _ = join_set.join_next().await.unwrap()?;`: some finished task is
\* taken out of the set; the task's own Result is discarded.  (`?` is on the
\* JoinError only, and write_batch neither panics nor is cancelled here.)
JoinNext ==
    /\ pc = "join_next"
    /\ \E k \in join_set :
        /\ task[k] # "running"
        /\ join_set' = join_set \ {k}
    /\ pc' = "read"
    /\ UNCHANGED <<ret, net, delete_resp, delete_msg, stdin_eof, nread, i,
                   batch, spawned, task, results, response>>
    /\ UNCHANGED queryVars

\* The lines iterator ends: the for loop is left and join_all() begins.
EndOfInput ==
    /\ CanRead
    /\ stdin_eof' = TRUE
    /\ pc' = "join_all"
    /\ UNCHANGED <<ret, net, delete_resp, delete_msg, nread, i, batch, spawned,
                   task, join_set, results, response>>
    /\ UNCHANGED queryVars

\* The service answers an upload: the task finishes with write_batch's result.
UploadResponds ==
    /\ \E k \in 1..Len(task), r \in HttpResponses :
        /\ UpsertReq(k) \in net
        /\ task[k] = "running"
        /\ task' = [task EXCEPT ![k] = write_batch(r)]
        /\ net' = net \ {UpsertReq(k)}
    /\ UNCHANGED <<pc, ret, delete_resp, delete_msg, stdin_eof, nread, i,
                   batch, spawned, join_set, results, response>>
    /\ UNCHANGED queryVars

\* join_all() collects the next finished task's output.
JoinAllNext ==
    /\ pc = "join_all"
    /\ ~DrainFinished
    /\ \E k \in join_set :
        /\ task[k] # "running"
        /\ join_set' = join_set \ {k}
        /\ results' = Append(results, task[k])
    /\ UNCHANGED <<pc, ret, net, delete_resp, delete_msg, stdin_eof, nread, i,
                   batch, spawned, task, response>>
    /\ UNCHANGED queryVars

\* join_all() has returned; `result?` over its vector, then wait_for_index()
\* sends its first metadata request.
JoinAllDone ==
    /\ pc = "join_all"
    /\ DrainFinished
    /\ IF FirstError(results)
       THEN Return("Err_upload")
       ELSE /\ pc' = "poll"
            /\ net' = net \cup {MetadataReq}
            /\ UNCHANGED <<ret, task, join_set>>
    /\ UNCHANGED <<delete_resp, delete_msg, stdin_eof, nread, i, batch,
                   spawned, results, response>>
    /\ UNCHANGED queryVars

\* wait_for_index: the service answers the metadata request.
MetadataResponds ==
    /\ pc = "poll"
    /\ MetadataReq \in net
    /\ \E r \in MetadataResponses :
        LET step == WaitStep(r) IN
        /\ response' = IF r.http = "2xx" /\ r.json THEN r.index ELSE response
        /\ IF step = "sleep"
           THEN /\ pc' = "sleep"
                /\ net' = net \ {MetadataReq}
                /\ UNCHANGED <<ret, task, join_set>>
           ELSE Return(IF step = "Err" THEN "Err_metadata" ELSE step)
    /\ UNCHANGED <<delete_resp, delete_msg, stdin_eof, nread, i, batch,
                   spawned, results>>
    /\ UNCHANGED queryVars

\* tokio::time::sleep(10 s) elapses; the loop sends the next metadata request.
SleepElapses ==
    /\ pc = "sleep"
    /\ pc' = "poll"
    /\ net' = net \cup {MetadataReq}
    /\ UNCHANGED <<ret, delete_resp, delete_msg, stdin_eof, nread, i, batch,
                   spawned, task, join_set, results, response>>
    /\ UNCHANGED queryVars

Next ==
    \/ DeleteResponds
    \/ ReadIoError
    \/ ReadBlank
    \/ ReadMalformed
    \/ ReadDoc
    \/ JoinNext
    \/ EndOfInput
    \/ UploadResponds
    \/ JoinAllNext
    \/ JoinAllDone
    \/ MetadataResponds
    \/ SleepElapses

vars == <<ingestVars, queryVars>>

Spec == Init /\ [][Next]_vars

\* The same program under the scheduling the tokio runtime and the service
\* provide: main runs whenever it is runnable (stdin yields a line, an error
\* or end-of-input; a join resumes once a task has finished), and every
\* request sent to the service is eventually answered.
FairSpec ==
    /\ Init
    /\ [][Next]_vars
    /\ WF_vars(DeleteResponds)
    /\ WF_vars(ReadIoError \/ ReadBlank \/ ReadMalformed \/ ReadDoc \/ EndOfInput)
    /\ WF_vars(UploadResponds)
    /\ WF_vars(JoinNext)
    /\ WF_vars(JoinAllNext)
    /\ WF_vars(JoinAllDone)

----------------------------------------------------------------------------
(* do_query.rs: the pure parts *)

(***************************************************************************)
(* A string of do_query's input is the sequence of its pieces: a tab, or a *)
(* tab-free word taken from a set no two sequences of which spell the same *)
(* text (a verb, "foo", "+", "bar").                                       *)
(***************************************************************************)
TAB == "\t"

RECURSIVE SplitFrom(_, _, _)
SplitFrom(rest, cur, acc) ==
    IF rest = <<>> THEN Append(acc, cur)
    ELSE IF Head(rest) = TAB THEN SplitFrom(Tail(rest), <<>>, Append(acc, cur))
    ELSE SplitFrom(Tail(rest), Append(cur, Head(rest)), acc)

\* Variant: the line split at its first tab only, as splitn(2, "\t") would.
split_first_tab(line) ==
    LET tabs == {j \in 1..Len(line) : line[j] = TAB} IN
    IF tabs = {} THEN <<line>>
    ELSE LET t == CHOOSE j \in tabs : \A h \in tabs : j <= h
         IN <<SubSeq(line, 1, t - 1), SubSeq(line, t + 1, Len(line))>>

\* line.split("\t").collect(): the fields between the tabs (one field, the
\* empty string, for an empty line).
split(line) == SplitFrom(line, <<>>, <<>>)

\* query.contains("+")
contains_plus(q) == \E k \in 1..Len(q) : q[k] = "+"

Verb(top_k, filter) == [supported |-> TRUE, top_k |-> top_k, filter |-> filter]

\* Variant: a match that also accepts TOP_5 and TOP_10000_FILTER_80%.
MatchCommandLenient(c) ==
    CASE c = <<"TOP_5">> -> Verb(5, {})
      [] c = <<"TOP_10000_FILTER_80%">> -> Verb(10000, {<<"80%">>})
      [] c = <<"TOP_10">> -> Verb(10, {})
      [] c = <<"COUNT">> -> Verb(0, {})
      [] OTHER -> [supported |-> FALSE, top_k |-> 0, filter |-> {}]

\* `match command { .. }`: (top_k, filter) of a verb; an Option is the set of
\* its at most one value.
MatchCommand(c) ==
    CASE c = <<"TOP_10">> -> Verb(10, {})
      [] c = <<"TOP_100">> -> Verb(100, {})
      [] c = <<"TOP_1000">> -> Verb(1000, {})
      [] c = <<"TOP_10000">> -> Verb(10000, {})
      [] c = <<"TOP_10_FILTER_80%">> -> Verb(10, {<<"80%">>})
      [] c = <<"TOP_10_FILTER_20%">> -> Verb(10, {<<"20%">>})
      [] c = <<"TOP_10_FILTER_5%">> -> Verb(10, {<<"5%">>})
      [] c = <<"TOP_100_FILTER_80%">> -> Verb(100, {<<"80%">>})
      [] c = <<"TOP_100_FILTER_20%">> -> Verb(100, {<<"20%">>})
      [] c = <<"TOP_100_FILTER_5%">> -> Verb(100, {<<"5%">>})
      [] c = <<"TOP_1000_FILTER_80%">> -> Verb(1000, {<<"80%">>})
      [] c = <<"TOP_1000_FILTER_20%">> -> Verb(1000, {<<"20%">>})
      [] c = <<"TOP_1000_FILTER_5%">> -> Verb(1000, {<<"5%">>})
      [] c = <<"COUNT">> -> Verb(0, {})
      [] c = <<"COUNT_FILTER_80%">> -> Verb(0, {<<"80%">>})
      [] c = <<"COUNT_FILTER_20%">> -> Verb(0, {<<"20%">>})
      [] c = <<"COUNT_FILTER_5%">> -> Verb(0, {<<"5%">>})
      [] OTHER -> [supported |-> FALSE, top_k |-> 0, filter |-> {}]

\* Variant: the any-token filter pushed for every count query.
BuildFiltersAnyTokenAlways(top_k, filter, q) ==
    LET sel == IF filter # {}
               THEN <<<<"filter", "Contains", CHOOSE f \in filter : TRUE>>>>
               ELSE <<>>
        all == IF contains_plus(q)
               THEN Append(sel, <<"text", "ContainsAllTokens", q>>)
               ELSE sel
    IN IF top_k = 0
       THEN Append(all, <<"text", "ContainsAnyToken", q>>)
       ELSE all

\* The `filters` vector as main builds it (lines 56-66).
BuildFilters(top_k, filter, q) ==
    LET sel == IF filter # {}
               THEN <<<<"filter", "Contains", CHOOSE f \in filter : TRUE>>>>
               ELSE <<>>
        all == IF contains_plus(q)
               THEN Append(sel, <<"text", "ContainsAllTokens", q>>)
               ELSE sel
    IN IF top_k = 0 /\ ~contains_plus(q)
       THEN Append(all, <<"text", "ContainsAnyToken", q>>)
       ELSE all

Eventual == [level |-> "eventual"]

\* Variant: an aggregation body that also carries top_k.
CountBodyWithTopK(filters) ==
    [aggregate_by |-> [count |-> <<"Count">>], top_k |-> 0,
     filters |-> <<"And", filters>>, consistency |-> Eventual]

\* The aggregation request's body: `match filters.as_slice()`.
CountBody(filters) ==
    IF Len(filters) = 1
    THEN [aggregate_by |-> [count |-> <<"Count">>],
          filters |-> filters[1],
          consistency |-> Eventual]
    ELSE [aggregate_by |-> [count |-> <<"Count">>],
          filters |-> <<"And", filters>>,
          consistency |-> Eventual]

\* Variant: a ranked body that wraps a sole filter in And as well.
RankBodyAlwaysAnd(q, top_k, filters) ==
    IF Len(filters) = 0
    THEN [rank_by |-> <<"text", "BM25", q>>,
          top_k |-> top_k,
          consistency |-> Eventual]
    ELSE [rank_by |-> <<"text", "BM25", q>>,
          filters |-> <<"And", filters>>,
          top_k |-> top_k,
          consistency |-> Eventual]

\* The ranked request's body: `match filters.as_slice()`.
RankBody(q, top_k, filters) ==
    IF Len(filters) = 0
    THEN [rank_by |-> <<"text", "BM25", q>>,
          top_k |-> top_k,
          consistency |-> Eventual]
    ELSE IF Len(filters) = 1
    THEN [rank_by |-> <<"text", "BM25", q>>,
          filters |-> filters[1],
          top_k |-> top_k,
          consistency |-> Eventual]
    ELSE [rank_by |-> <<"text", "BM25", q>>,
          filters |-> <<"And", filters>>,
          top_k |-> top_k,
          consistency |-> Eventual]

\* The lines do_query.rs is fed: every verb of the match and two verbs that
\* are not in it, each with a plain and a "+" query, and lines with no tab,
\* two tabs, only a tab, or nothing.
InputVerbs ==
    {"TOP_10", "TOP_100", "TOP_1000", "TOP_10000",
     "TOP_10_FILTER_80%", "TOP_10_FILTER_20%", "TOP_10_FILTER_5%",
     "TOP_100_FILTER_80%", "TOP_100_FILTER_20%", "TOP_100_FILTER_5%",
     "TOP_1000_FILTER_80%", "TOP_1000_FILTER_20%", "TOP_1000_FILTER_5%",
     "COUNT", "COUNT_FILTER_80%", "COUNT_FILTER_20%", "COUNT_FILTER_5%",
     "TOP_5", "TOP_10000_FILTER_80%"}

InputQueries == {<<"foo">>, <<"foo", "+", "bar">>}

QueryLines ==
    {<<v, TAB>> \o q : v \in InputVerbs, q \in InputQueries}
    \cup {<<>>, <<TAB>>, <<"COUNT">>, <<"TOP_5">>,
          <<"TOP_10", TAB, "foo", TAB, "bar">>, <<"TOP_5", TAB, "foo", TAB>>}

\* The answers to a query request: a transport error, an error status, or a
\* JSON body with or without `rows` (here: how many), with or without
\* `aggregations` (a map, as its set of entries), and its
\* performance.exhaustive_search_count.
QueryResponses ==
    {[http |-> h, rows |-> {}, aggregations |-> {}, exhaustive_search_count |-> 0] :
        h \in {"transport", "5xx"}}
    \cup {[http |-> "2xx", rows |-> rw, aggregations |-> ag,
           exhaustive_search_count |-> e] :
            rw \in {{}, {2}},
            ag \in {{}, {{}}, {{<<"count", 37>>}}},
            e \in {0, 1}}

\* .json::<QueryResponse>(): rows and performance.
AsQueryResponse(r) ==
    [rows |-> r.rows, aggregations |-> {},
     exhaustive_search_count |-> r.exhaustive_search_count]

\* .json::<AggregationResponse>(): aggregations and performance.
AsAggregationResponse(r) ==
    [rows |-> {}, aggregations |-> r.aggregations,
     exhaustive_search_count |-> r.exhaustive_search_count]

\* Variant: the assertion left out.
IndexedAssertionRemoved(r) == TRUE

\* assert_eq!(response.performance.exhaustive_search_count, 0)
IndexedAssertion(r) == r.exhaustive_search_count = 0

Printed(kind, val) == [kind |-> kind, val |-> val]

----------------------------------------------------------------------------
(* do_query.rs: main *)

\* do_query's main ends with r.
QReturn(r) ==
    /\ qpc' = "done"
    /\ qret' = r
    /\ qnet' = {}

\* `let line = line?;` fails.
QLineIoError ==
    /\ qpc = "read"
    /\ Len(qlines) < MaxQueryLines
    /\ QReturn("Err_io")
    /\ UNCHANGED <<qlines, command, query, sent, qresponse, stdout>>
    /\ UNCHANGED ingestVars

\* One line: split, the field-count assertion, the verb match, the filters,
\* the body, and the POST.
QReadLine ==
    /\ qpc = "read"
    /\ Len(qlines) < MaxQueryLines
    /\ \E line \in QueryLines :
        LET fields == split(line) IN
        /\ qlines' = Append(qlines, line)
        /\ IF Len(fields) # 2
           THEN /\ QReturn("panic_fields")
                /\ UNCHANGED <<command, query, sent, stdout>>
           ELSE LET m == MatchCommand(fields[1])
                    filters == BuildFilters(m.top_k, m.filter, fields[2])
                IN
                /\ command' = fields[1]
                /\ query' = fields[2]
                /\ qret' = qret
                /\ IF ~m.supported
                   THEN /\ stdout' = Append(stdout, Printed("unsupported", fields[1]))
                        /\ UNCHANGED <<qpc, qnet, sent>>
                   ELSE IF m.top_k = 0
                   THEN /\ qnet' = {CountBody(filters)}
                        /\ sent' = Append(sent, CountBody(filters))
                        /\ qpc' = "await_count"
                        /\ UNCHANGED stdout
                   ELSE LET body == RankBody(fields[2], m.top_k, filters) IN
                        /\ stdout' = Append(stdout, Printed("body", body))
                        /\ qnet' = {body}
                        /\ sent' = Append(sent, body)
                        /\ qpc' = "await_rows"
    /\ UNCHANGED qresponse
    /\ UNCHANGED ingestVars

\* The answer to an aggregation request: AggregationResponse, the assertion,
\* and `response.aggregations["count"]`.
QCountResponds ==
    /\ qpc = "await_count"
    /\ \E r \in QueryResponses :
        IF r.http # "2xx" \/ r.aggregations = {}
        THEN /\ QReturn("Err_http")
             /\ UNCHANGED <<stdout, qresponse>>
        ELSE /\ qresponse' = AsAggregationResponse(r)
             /\ IF ~IndexedAssertion(r)
                THEN /\ QReturn("panic_exhaustive")
                     /\ UNCHANGED stdout
                ELSE LET aggregations == CHOOSE a \in r.aggregations : TRUE IN
                     IF \E e \in aggregations : e[1] = "count"
                     THEN /\ stdout' = Append(stdout,
                                Printed("count",
                                    (CHOOSE e \in aggregations : e[1] = "count")[2]))
                          /\ qpc' = "read"
                          /\ qnet' = {}
                          /\ qret' = qret
                     ELSE /\ QReturn("panic_no_count")
                          /\ UNCHANGED stdout
    /\ UNCHANGED <<qlines, command, query, sent>>
    /\ UNCHANGED ingestVars

\* The answer to a ranked request: QueryResponse, the assertion, rows.len().
QRowsResponds ==
    /\ qpc = "await_rows"
    /\ \E r \in QueryResponses :
        IF r.http # "2xx" \/ r.rows = {}
        THEN /\ QReturn("Err_http")
             /\ UNCHANGED <<stdout, qresponse>>
        ELSE /\ qresponse' = AsQueryResponse(r)
             /\ IF ~IndexedAssertion(r)
                THEN /\ QReturn("panic_exhaustive")
                     /\ UNCHANGED stdout
                ELSE /\ stdout' = Append(stdout,
                                Printed("count", CHOOSE n \in r.rows : TRUE))
                     /\ qpc' = "read"
                     /\ qnet' = {}
                     /\ qret' = qret
    /\ UNCHANGED <<qlines, command, query, sent>>
    /\ UNCHANGED ingestVars

\* stdin ends: Ok(()).
QEndOfInput ==
    /\ qpc = "read"
    /\ QReturn("Ok")
    /\ UNCHANGED <<qlines, command, query, sent, qresponse, stdout>>
    /\ UNCHANGED ingestVars

QueryNext ==
    \/ QLineIoError
    \/ QReadLine
    \/ QCountResponds
    \/ QRowsResponds
    \/ QEndOfInput

QuerySpec == Init /\ [][QueryNext]_vars

----------------------------------------------------------------------------
(* build_index.rs: properties *)

RECURSIVE Flatten(_)
\* The batches of a sequence, concatenated.
Flatten(bs) == IF bs = <<>> THEN <<>> ELSE Head(bs) \o Flatten(Tail(bs))

CeilDiv(n, d) == (n + d - 1) \div d

\* join_all() has returned: end-of-input was reached and the drain finished.
Drained == stdin_eof /\ pc # "join_all"

UploadFailed == \E k \in 1..Len(task) : task[k] = "Err"

\* A failed task's result has been taken out of the JoinSet by main.
FailureJoined == \E k \in 1..Len(task) : task[k] = "Err" /\ k \notin join_set

UploadsInFlight == {k \in 1..Len(task) : UpsertReq(k) \in net}

\* C1: once ingestion has drained, ceil(N/B) batches were dispatched and
\* their concatenation in dispatch order is the N input documents in input
\* order; a partial trailing batch is dispatched at end-of-input.
C1_AllDocumentsDispatched ==
    Drained =>
        /\ Len(spawned) = CeilDiv(i, BATCH_SIZE)
        /\ Flatten(spawned) = [d \in 1..i |-> d]

\* C2: at most MAX_CONCURRENCY uploads are dispatched and not yet joined; a
\* batch is dispatched only when fewer than MAX_CONCURRENCY are outstanding;
\* with MAX_CONCURRENCY outstanding the producer is blocked in join_next and
\* leaves it only by taking a finished upload out of the set.
C2_BoundedConcurrency ==
    /\ [](/\ Cardinality(join_set) <= MAX_CONCURRENCY
          /\ Cardinality(UploadsInFlight) <= MAX_CONCURRENCY
          /\ UploadsInFlight \subseteq join_set
          /\ (pc = "read" => Cardinality(join_set) < MAX_CONCURRENCY))
    /\ [][Len(spawned') > Len(spawned)
            => Cardinality(join_set) < MAX_CONCURRENCY]_vars
    /\ [][pc = "join_next" /\ pc' # "join_next"
            => \E k \in join_set : /\ task[k] # "running"
                                   /\ join_set' = join_set \ {k}]_vars

C2_Witness ==
    /\ pc = "join_next"
    /\ Cardinality(join_set) = MAX_CONCURRENCY
    /\ \A k \in join_set : task[k] = "running"

\* C3: if any dispatched upload fails, the run neither reports success nor
\* starts index-convergence waiting.
C3_UploadFailureIsFatal ==
    UploadFailed =>
        /\ ret # "Ok"
        /\ pc \notin {"poll", "sleep"}
        /\ MetadataReq \notin net
        /\ response = NoIndex

\* C4: once a failed upload's result has been joined by the ingestion loop, no
\* further batch is dispatched.
C4_NoDispatchAfterFailure ==
    [][FailureJoined => spawned' = spawned]_vars

\* C5: when the run ends by propagating an upload error, every upload
\* dispatched before has run to completion (none in flight, none aborted), and
\* no document was sent in two uploads.
C5_FailFastAfterDrain ==
    (pc = "done" /\ ret = "Err_upload") =>
        /\ \A k \in 1..Len(task) : task[k] \in {"Ok", "Err"}
        /\ Len(task) = Len(spawned)
        /\ LET docs == Flatten(spawned) IN
           \A a, b \in 1..Len(docs) : docs[a] = docs[b] => a = b

C5_Witness ==
    /\ pc = "done"
    /\ ret = "Err_upload"
    /\ Len(spawned) >= 2
    /\ \E k \in 1..Len(task) : task[k] = "Ok"

\* C6: the delete has finished before the first upload is dispatched, and no
\* other request is in flight together with the delete.
C6_DeleteRunsAlone ==
    /\ DeleteReq \in net => net = {DeleteReq}
    /\ (Len(spawned) > 0 \/ net \ {DeleteReq} # {})
          => delete_resp # "none" /\ DeleteReq \notin net

C6_Witness ==
    /\ delete_resp # "none"
    /\ UpsertReq(1) \in net

\* The state in which main enters its read loop.
ReadLoopStart ==
    /\ pc = "read"
    /\ ret = "running"
    /\ net = {}
    /\ ~stdin_eof /\ nread = 0 /\ i = 0
    /\ batch = <<>> /\ spawned = <<>> /\ task = <<>> /\ join_set = {}
    /\ results = <<>> /\ response = NoIndex

\* C7: a delete answered "not found" does not fail the run: main enters the
\* read loop in the very state a successful delete leaves, and the run never
\* ends with the delete's error.
C7_NotFoundIsIgnored ==
    /\ [][pc = "delete" /\ delete_resp' \in {"404", "2xx"} => ReadLoopStart']_vars
    /\ [](delete_resp = "404" => ret # "Err_delete")

C7_Witness ==
    /\ delete_resp = "404"
    /\ UpsertReq(1) \in net

\* C8: a metadata poll is in flight only after end-of-input and after every
\* dispatched upload has completed and been joined.
C8_PollAfterDrain ==
    (MetadataReq \in net \/ pc \in {"poll", "sleep"}) =>
        /\ stdin_eof
        /\ join_set = {}
        /\ UploadsInFlight = {}
        /\ \A k \in 1..Len(task) : task[k] \in {"Ok", "Err"}

C8_Witness ==
    /\ MetadataReq \in net
    /\ Len(spawned) >= 2

\* C9: success is reported only if the last metadata poll returned status
\* "up-to-date"; after a poll that returns any other status the waiter sleeps
\* and then polls again, with no limit on the rounds.
C9_SuccessOnlyWhenUpToDate ==
    /\ [](ret = "Ok" => response.status = "up-to-date")
    /\ [][pc = "poll" /\ ret' # "Err_metadata" /\ response'.status # "up-to-date"
            => pc' = "sleep" /\ ret' = "running"]_vars
    /\ [][pc = "sleep" => pc' = "poll" /\ MetadataReq \in net']_vars

----------------------------------------------------------------------------
(* do_query.rs: properties *)

\* The fixed vocabulary, spelled from its parameters.
Selectivities == {"80%", "20%", "5%"}

TopVerb(k) == "TOP_" \o ToString(k)

TopFilterVerb(k, p) == "TOP_" \o ToString(k) \o "_FILTER_" \o p

CountFilterVerb(p) == "COUNT_FILTER_" \o p

Vocabulary ==
    {TopVerb(k) : k \in {10, 100, 1000, 10000}}
    \cup {TopFilterVerb(k, p) : k \in {10, 100, 1000}, p \in Selectivities}
    \cup {"COUNT"}
    \cup {CountFilterVerb(p) : p \in Selectivities}

\* A line of exactly two tab-separated fields whose first is a vocabulary verb.
VocabularyLine(line) ==
    /\ Len(line) >= 2
    /\ line[1] \in Vocabulary
    /\ line[2] = TAB
    /\ \A j \in 3..Len(line) : line[j] # TAB

RawQuery(line) == SubSeq(line, 3, Len(line))

\* The filters of a request body, one by one (the members of an And, or the
\* sole filter, or none).
FiltersOf(b) ==
    IF "filters" \notin DOMAIN b THEN {}
    ELSE IF b.filters[1] = "And"
         THEN {b.filters[2][j] : j \in 1..Len(b.filters[2])}
         ELSE {b.filters}

SelectivityOf(b) == {f \in FiltersOf(b) : f[1] = "filter"}

IsRanked(b, k, q) ==
    /\ {"rank_by", "top_k"} \subseteq DOMAIN b
    /\ "aggregate_by" \notin DOMAIN b
    /\ b.rank_by = <<"text", "BM25", q>>
    /\ b.top_k = k

IsCount(b) ==
    /\ "aggregate_by" \in DOMAIN b
    /\ b.aggregate_by = [count |-> <<"Count">>]
    /\ "rank_by" \notin DOMAIN b
    /\ "top_k" \notin DOMAIN b

\* What the vocabulary asks of the request b sent for verb v and raw query q.
RequestAsSpecified(b, v, q) ==
    /\ "consistency" \in DOMAIN b
    /\ b.consistency = [level |-> "eventual"]
    /\ \A k \in {10, 100, 1000, 10000} :
          v = TopVerb(k) => IsRanked(b, k, q) /\ SelectivityOf(b) = {}
    /\ \A k \in {10, 100, 1000}, p \in Selectivities :
          v = TopFilterVerb(k, p) =>
              /\ IsRanked(b, k, q)
              /\ SelectivityOf(b) = {<<"filter", "Contains", <<p>>>>}
    /\ v = "COUNT" => IsCount(b) /\ SelectivityOf(b) = {}
    /\ \A p \in Selectivities :
          v = CountFilterVerb(p) =>
              /\ IsCount(b)
              /\ SelectivityOf(b) = {<<"filter", "Contains", <<p>>>>}
    /\ (v = "TOP_10_FILTER_80%" /\ q = <<"foo">>) =>
          b = [rank_by |-> <<"text", "BM25", <<"foo">>>>,
               filters |-> <<"filter", "Contains", <<"80%">>>>,
               top_k |-> 10,
               consistency |-> [level |-> "eventual"]]

\* C10: one request is sent for every line of two fields with a vocabulary
\* verb, and none for any other line; a TOP_k verb's request ranks by
\* [text, BM25, raw query] with top_k = k, a COUNT verb's asks for the count
\* aggregate with neither rank_by nor top_k; the selectivity filter
\* [filter, Contains, p] is in the request exactly when the verb carries
\* _FILTER_p; the consistency level is eventual.
C10_RequestPerVerb ==
    LET asked == SelectSeq(qlines, VocabularyLine) IN
    /\ Len(sent) = Len(asked)
    /\ \A n \in 1..Len(sent) :
          RequestAsSpecified(sent[n], asked[n][1], RawQuery(asked[n]))

C10_Witness ==
    /\ Len(sent) = 2
    /\ qlines[1] = <<"TOP_10_FILTER_80%", TAB, "foo">>
    /\ qlines[2] = <<"COUNT_FILTER_5%", TAB, "foo", "+", "bar">>
    /\ qpc = "await_count"

\* The verbs of ranked commands, with the selectivity each carries (an Option).
RankedVerbs ==
    {<<TopVerb(k), {}>> : k \in {10, 100, 1000, 10000}}
    \cup {<<TopFilterVerb(k, p), {p}>> : k \in {10, 100, 1000}, p \in Selectivities}

CountVerbs ==
    {<<"COUNT", {}>>} \cup {<<CountFilterVerb(p), {p}>> : p \in Selectivities}

\* The raw query text contains a '+'.
IsIntersection(q) == \E j \in 1..Len(q) : q[j] = "+"

SelectivityFilter(p) == <<"filter", "Contains", <<p>>>>

IntersectionFilter(q) == <<"text", "ContainsAllTokens", q>>

AnyTokenFilter(q) == <<"text", "ContainsAnyToken", q>>

HasNoFilters(b) == "filters" \notin DOMAIN b

\* b's filters field is the single filter f, with no And around it.
HasSoleFilter(b, f) ==
    /\ "filters" \in DOMAIN b
    /\ Len(b.filters) = 3
    /\ b.filters = f

\* b's filters field is And of exactly the filters f and g, in this order.
HasAndOf(b, f, g) ==
    /\ "filters" \in DOMAIN b
    /\ Len(b.filters) = 2
    /\ b.filters[1] = "And"
    /\ b.filters[2] = <<f, g>>

\* The composition rule for the ranked request b of a verb with selectivity
\* sel (an Option) and raw query q.
RankedFiltersComposed(b, sel, q) ==
    /\ (sel # {} /\ IsIntersection(q)) =>
          \A p \in sel : HasAndOf(b, SelectivityFilter(p), IntersectionFilter(q))
    /\ (sel # {} /\ ~IsIntersection(q)) =>
          \A p \in sel : HasSoleFilter(b, SelectivityFilter(p))
    /\ (sel = {} /\ IsIntersection(q)) => HasSoleFilter(b, IntersectionFilter(q))
    /\ (sel = {} /\ ~IsIntersection(q)) => HasNoFilters(b)

\* C11: for every ranked (TOP) command the query is an intersection query iff
\* its raw text contains '+'; with a selectivity filter and an intersection
\* query the filters are And of exactly [selectivity, ContainsAllTokens on the
\* raw query]; with one of the two that filter alone, unwrapped; with neither
\* the request has no filters field.
C11_RankedFilterComposition ==
    LET asked == SelectSeq(qlines, VocabularyLine) IN
    /\ Len(sent) = Len(asked)
    /\ \A n \in 1..Len(sent) : \A v \in RankedVerbs :
          asked[n][1] = v[1] =>
              RankedFiltersComposed(sent[n], v[2], RawQuery(asked[n]))

C11_Witness ==
    /\ Len(sent) = 2
    /\ qlines[1] = <<"TOP_100_FILTER_20%", TAB, "foo", "+", "bar">>
    /\ qlines[2] = <<"TOP_10000", TAB, "foo">>
    /\ HasNoFilters(sent[2])
    /\ qpc = "await_rows"

\* The composition rule as claimed for the count request b: the any-token
\* fallback only when neither other filter applies.
CountFiltersAsClaimed(b, sel, q) ==
    /\ (sel # {} /\ IsIntersection(q)) =>
          \A p \in sel : HasAndOf(b, SelectivityFilter(p), IntersectionFilter(q))
    /\ (sel # {} /\ ~IsIntersection(q)) =>
          \A p \in sel : HasSoleFilter(b, SelectivityFilter(p))
    /\ (sel = {} /\ IsIntersection(q)) => HasSoleFilter(b, IntersectionFilter(q))
    /\ (sel = {} /\ ~IsIntersection(q)) => HasSoleFilter(b, AnyTokenFilter(q))

\* The rule the count request follows: the any-token filter whenever the
\* query is not an intersection query.
CountFiltersComposed(b, sel, q) ==
    /\ (sel # {} /\ IsIntersection(q)) =>
          \A p \in sel : HasAndOf(b, SelectivityFilter(p), IntersectionFilter(q))
    /\ (sel # {} /\ ~IsIntersection(q)) =>
          \A p \in sel : HasAndOf(b, SelectivityFilter(p), AnyTokenFilter(q))
    /\ (sel = {} /\ IsIntersection(q)) => HasSoleFilter(b, IntersectionFilter(q))
    /\ (sel = {} /\ ~IsIntersection(q)) => HasSoleFilter(b, AnyTokenFilter(q))

\* C12 (as claimed): for every count command the any-token fallback filter is
\* in the request only when neither a selectivity nor an intersection filter
\* applies; when exactly one of those applies it is the whole filter, with no
\* And and no fallback; when both apply the filter is And of exactly the two.
C12_CountFallbackOnlyWhenNeither ==
    LET asked == SelectSeq(qlines, VocabularyLine) IN
    /\ Len(sent) = Len(asked)
    /\ \A n \in 1..Len(sent) : \A v \in CountVerbs :
          asked[n][1] = v[1] =>
              CountFiltersAsClaimed(sent[n], v[2], RawQuery(asked[n]))

\* C12 (amended): for every count command the any-token filter is in the
\* request exactly when the query is not an intersection query: alone when
\* the verb has no selectivity filter, and as And of exactly [selectivity,
\* any-token] when it has one; an intersection query carries the intersection
\* filter alone (COUNT with "foo+bar") or And of exactly [selectivity,
\* intersection].
C12_CountFilterComposition ==
    LET asked == SelectSeq(qlines, VocabularyLine) IN
    /\ Len(sent) = Len(asked)
    /\ \A n \in 1..Len(sent) : \A v \in CountVerbs :
          asked[n][1] = v[1] =>
              CountFiltersComposed(sent[n], v[2], RawQuery(asked[n]))

C12_Witness ==
    /\ Len(sent) = 2
    /\ qlines[1] = <<"COUNT_FILTER_80%", TAB, "foo">>
    /\ qlines[2] = <<"COUNT", TAB, "foo", "+", "bar">>
    /\ HasSoleFilter(sent[2], IntersectionFilter(<<"foo", "+", "bar">>))
    /\ qpc = "await_count"

TabCount(line) == Cardinality({j \in 1..Len(line) : line[j] = TAB})

\* The text of a line before its first tab.
FirstField(line) ==
    LET tabs == {j \in 1..Len(line) : line[j] = TAB} IN
    IF tabs = {} THEN line
    ELSE SubSeq(line, 1, (CHOOSE j \in tabs : \A h \in tabs : j <= h) - 1)

InVocabulary(field) == Len(field) = 1 /\ field[1] \in Vocabulary

\* A line of two tab-separated fields whose verb is not in the vocabulary.
UnsupportedLine(line) == TabCount(line) = 1 /\ ~InVocabulary(FirstField(line))

Last(seq) == seq[Len(seq)]

\* C13: a line whose verb is not in the vocabulary sends no request, prints
\* one diagnostic line, does not end the run, and leaves main ready to read
\* the next line.
C13_UnsupportedIsSkipped ==
    [][(Len(qlines') > Len(qlines) /\ UnsupportedLine(Last(qlines')))
        => /\ sent' = sent
           /\ qnet' = {}
           /\ Len(stdout') = Len(stdout) + 1
           /\ SubSeq(stdout', 1, Len(stdout)) = stdout
           /\ Last(stdout').kind = "unsupported"
           /\ qpc' = "read"
           /\ qret' = "running"]_vars

C13_Witness ==
    /\ Len(qlines) = 2
    /\ qlines[1] = <<"TOP_10000_FILTER_80%", TAB, "foo">>
    /\ qlines[2] = <<"TOP_10", TAB, "foo">>
    /\ Len(stdout) = 2
    /\ stdout[1].kind = "unsupported"
    /\ Len(sent) = 1
    /\ qpc = "await_rows"

Awaiting == qpc \in {"await_count", "await_rows"}

\* The step in which main deserializes an answer to its request.
AnswerParsed == Awaiting /\ qpc' # qpc /\ qret' # "Err_http"

\* The step prints a result count.
CountPrinted == Len(stdout') > Len(stdout) /\ Last(stdout').kind = "count"

\* C14: a result count is printed only for an answer whose exhaustive-search
\* count is 0, and it is the number of rows (ranked) or the count aggregate
\* (aggregation); an answer with a non-zero exhaustive-search count ends the
\* run with a panic whatever its result, prints no count, and nothing is read
\* or sent afterwards.
C14_ExhaustiveSearchIsFatal ==
    /\ [][CountPrinted =>
            /\ AnswerParsed
            /\ qresponse'.exhaustive_search_count = 0
            /\ stdout' = Append(stdout, Last(stdout'))
            /\ (qpc = "await_rows" => qresponse'.rows = {Last(stdout').val})
            /\ (qpc = "await_count" =>
                  \A a \in qresponse'.aggregations :
                      <<"count", Last(stdout').val>> \in a)]_vars
    /\ [][(AnswerParsed /\ qresponse'.exhaustive_search_count # 0) =>
            /\ qret' = "panic_exhaustive"
            /\ qpc' = "done"
            /\ stdout' = stdout
            /\ qnet' = {}]_vars
    /\ [][qpc # "done"]_vars

C14_Witness ==
    /\ qret = "panic_exhaustive"
    /\ Len(qlines) = 2
    /\ Len(stdout) = 1
    /\ stdout[1].kind = "count"
    /\ qresponse.aggregations = {{<<"count", 37>>}}
    /\ qresponse.exhaustive_search_count = 1

\* C15: commands are handled one at a time in input order (at most one query
\* request in flight, a line's request sent only when the previous line is
\* completely handled), and the output is exactly one line per input line, in
\* input order.
C15_OneOutputLinePerInputLine ==
    /\ Cardinality(qnet) <= 1
    /\ (Awaiting => qnet = {Last(sent)})
    /\ (qpc = "read" => qnet = {} /\ Len(stdout) = Len(qlines))

\* b holds consecutive input documents, in input order.
Contiguous(b) == \A j \in 1..(Len(b) - 1) : b[j + 1] = b[j] + 1

\* C16: every batch handed to an upload has at most BATCH_SIZE documents, a
\* contiguous run of the input in input order; every dispatched batch but the
\* last has exactly BATCH_SIZE; a dispatched batch never changes, and the
\* producer's batch is empty right after the hand-off.
C16_BatchesFixedAtDispatch ==
    /\ [](\A k \in 1..Len(spawned) :
            /\ Len(spawned[k]) >= 1
            /\ Len(spawned[k]) <= BATCH_SIZE
            /\ Contiguous(spawned[k])
            /\ (k < Len(spawned) =>
                  /\ Len(spawned[k]) = BATCH_SIZE
                  /\ spawned[k + 1][1] = spawned[k][Len(spawned[k])] + 1))
    /\ [](Contiguous(batch) /\ Len(batch) < BATCH_SIZE)
    /\ [][/\ Len(spawned') >= Len(spawned)
          /\ SubSeq(spawned', 1, Len(spawned)) = spawned]_vars
    /\ [][Len(spawned') > Len(spawned) =>
            /\ Len(spawned') = Len(spawned) + 1
            /\ spawned'[Len(spawned')] = Append(batch, i')
            /\ batch' = <<>>]_vars

C16_Witness ==
    /\ Len(spawned) = 3
    /\ batch = <<7>>
    /\ spawned[3] = <<5, 6>>
    /\ task[1] \in {"Ok", "Err"}

\* The last metadata response parsed carried a status other than "up-to-date".
NotYetUpToDate == response.status \notin {NoIndex.status, "up-to-date"}

\* C17: a parsed metadata response whose status is not "up-to-date" never ends
\* the run, with or without unindexed_bytes: the waiter sleeps and polls again
\* (only a later failed poll may end the run while the index is not up to date).
C17_WaiterContinues ==
    /\ [](NotYetUpToDate => ret \in {"running", "Err_metadata"})
    /\ [][pc = "poll" /\ NotYetUpToDate' /\ ret' = "running"
            => pc' = "sleep" /\ net' = {}]_vars
    /\ [][pc = "sleep" => pc' = "poll" /\ net' = {MetadataReq}]_vars

\* C18: a delete that fails for a reason other than not-found (connection
\* failure, or a non-success status other than 404) ends the run with an error
\* at once, and no batch upload is dispatched.
C18_OtherDeleteFailureIsFatal ==
    delete_resp \in {"5xx", "transport"} =>
        /\ pc = "done"
        /\ ret \notin {"running", "Ok"}
        /\ spawned = <<>>

\* C19: the upload scheduler never deadlocks.  With every dispatched upload
\* eventually answered, a producer waiting for a slot resumes reading, the
\* read loop is eventually left (input consumed, or the run ended by an input
\* error), and the final drain finishes; the blocking wait is entered only with
\* MAX_CONCURRENCY (hence at least one) uploads outstanding.
C19_SchedulerNeverDeadlocks ==
    /\ [](pc = "join_next" =>
            /\ join_set # {}
            /\ Cardinality(join_set) = MAX_CONCURRENCY)
    /\ (pc = "join_next") ~> (pc = "read")
    /\ <>(stdin_eof \/ pc = "done")
    /\ (pc = "join_all") ~> (join_set = {} /\ pc \in {"poll", "done"})

C19_Witness ==
    /\ pc = "read"
    /\ Len(spawned) = MAX_CONCURRENCY + 1
    /\ Cardinality(join_set) = MAX_CONCURRENCY - 1
    /\ Cardinality(UploadsInFlight) = MAX_CONCURRENCY - 1

\* The line just read is not two tab-separated fields.
MalformedLine(line) == TabCount(line) # 1

\* C20: a line without exactly one tab (none, several, or an empty line) aborts
\* the run at that line, whatever its first field: no request is sent for it,
\* nothing is printed, and no later line is processed.
C20_WrongFieldCountIsFatal ==
    /\ [][(Len(qlines') > Len(qlines) /\ MalformedLine(Last(qlines')))
            => /\ qret' = "panic_fields"
               /\ qpc' = "done"
               /\ sent' = sent
               /\ qnet' = {}
               /\ stdout' = stdout]_vars
    /\ [](qret = "panic_fields" => qpc = "done" /\ MalformedLine(Last(qlines)))
    /\ [][qret = "panic_fields"
            => qlines' = qlines /\ sent' = sent /\ stdout' = stdout]_vars

C20_Witness ==
    /\ qret = "panic_fields"
    /\ Len(qlines) = 2
    /\ Last(qlines) = <<"TOP_5">>
    /\ Len(sent) = 1

====
